---------------------------- MODULE Spec2Model ----------------------------
(***************************************************************************)
(* vecgrep (src/src/main.rs): selection of matching lines by threshold or  *)
(* top-N, the batch context-window loop, the streaming loop run_stream and *)
(* the quantile summary.                                                   *)
(*                                                                         *)
(* A line is known by its zero-based index; its text is opaque.  A score   *)
(* is an integer on a grid on which One stands for 1.0 and 0 for 0.0; the  *)
(* embedding model is an opaque collaborator, so the scores of the lines   *)
(* are inputs.  Vectors indexed from 0 in the source (scores, is_match)    *)
(* are functions on 0..n-1 here, so that index arithmetic reads as in the  *)
(* source.  Option<usize> is a sequence of length at most one.             *)
(***************************************************************************)
EXTENDS Integers, Sequences, FiniteSets

\* Bounds of the model.
MaxLen == 4
MaxCtx == 2
MaxScore == 2

\* usize::MAX of the model's machine word, which is narrower than the
\* program's so that sums beyond it are within reach.
UsizeMax == 15

\* 1.0f32, the seed of the min_selected fold (main.rs:137).
One == 1

VARIABLES pc, cli, model_loaded, input_lines, scores, is_match,
          selection_summary, i, windows, out, distribution,
          before_buf, after_remaining, printed_any, printed_prev_line,
          similarity, pending, read_error

vars == <<pc, cli, model_loaded, input_lines, scores, is_match,
          selection_summary, i, windows, out, distribution,
          before_buf, after_remaining, printed_any, printed_prev_line,
          similarity, pending, read_error>>

batch_vars == <<input_lines, scores, is_match, selection_summary, i,
                windows, distribution>>

stream_vars == <<before_buf, after_remaining, printed_any, printed_prev_line>>

\* What the scoring of a batch run is made of when its lines are scored one
\* by one: similarity[k] is the score the model gives line k, pending the
\* lines not scored yet.
scoring_vars == <<similarity, pending>>

ScoreVals == 0..MaxScore

Min2(a, b) == IF a <= b THEN a ELSE b

\* usize addition as a release build does it: modulo the word.
wrapping_add(a, b) == (a + b) % (UsizeMax + 1)

\* usize::saturating_sub
saturating_sub(a, b) == IF b > a THEN 0 ELSE a - b

\* The empty vector, as a function on 0..-1.
EmptyVec == [k \in {} |-> 0]

VecLen(v) == Cardinality(DOMAIN v)

\* Vec::push on a vector held as a function on 0..n-1.
Push(v, x) == [k \in 0..VecLen(v) |-> IF k = VecLen(v) THEN x ELSE v[k]]

\* The command lines the model runs: every field of Cli the engine reads.
\* threshold is not read in top-N mode, so one value stands for it there.
Cli ==
  [threshold : ScoreVals, after : 0..MaxCtx, before : 0..MaxCtx,
   hide_scores : BOOLEAN, top : {<<>>}, stream : BOOLEAN]
  \cup
  [threshold : {One}, after : 0..MaxCtx, before : 0..MaxCtx,
   hide_scores : BOOLEAN, top : {<<n>> : n \in 0..(MaxLen + 1)},
   stream : BOOLEAN]

\* println!("--")
Sep == <<"--">>

\* The mutated print: every line of a block carries its score.
PrintLineScored(k, matched, score, hide) ==
  IF ~hide THEN <<"line", k, <<score>>>> ELSE <<"line", k, <<>>>>

\* println! of line k: with its score when it matches and scores are shown.
PrintLine(k, matched, score, hide) ==
  IF matched /\ ~hide THEN <<"line", k, <<score>>>> ELSE <<"line", k, <<>>>>

Init ==
  /\ pc = "start"
  /\ cli \in Cli
  /\ model_loaded = FALSE
  /\ input_lines = <<>>
  /\ scores = EmptyVec
  /\ is_match = EmptyVec
  /\ selection_summary = <<>>
  /\ i = 0
  /\ windows = <<>>
  /\ out = <<>>
  /\ distribution = <<>>
  /\ before_buf = <<>>
  /\ after_remaining = 0
  /\ printed_any = FALSE
  /\ printed_prev_line = FALSE
  /\ similarity = EmptyVec
  /\ pending = {}
  /\ read_error = FALSE

\* The mutated parse: the conflict between --top and --stream is not declared.
ParseNoConflict ==
  /\ pc = "start"
  /\ pc' = "parsed"
  /\ UNCHANGED <<cli, model_loaded, out>>
  /\ UNCHANGED batch_vars
  /\ UNCHANGED stream_vars
  /\ UNCHANGED scoring_vars
  /\ UNCHANGED read_error

\* Cli::parse(): top conflicts_with stream; a conflict ends the process.
Parse ==
  /\ pc = "start"
  /\ pc' = IF cli.top # <<>> /\ cli.stream THEN "rejected" ELSE "parsed"
  /\ UNCHANGED <<cli, model_loaded, out>>
  /\ UNCHANGED batch_vars
  /\ UNCHANGED stream_vars
  /\ UNCHANGED scoring_vars
  /\ UNCHANGED read_error

\* StaticModel::from_pretrained and the encoding of the query.
LoadModel ==
  /\ pc = "parsed"
  /\ model_loaded' = TRUE
  /\ pc' = "loaded"
  /\ UNCHANGED <<cli, out>>
  /\ UNCHANGED batch_vars
  /\ UNCHANGED stream_vars
  /\ UNCHANGED scoring_vars
  /\ UNCHANGED read_error

\* stdin.lock().lines().collect(): the whole input, read before anything else.
ReadAll ==
  /\ pc = "loaded"
  /\ ~cli.stream
  /\ \E n \in 0..MaxLen : input_lines' = [k \in 1..n |-> k - 1]
  /\ pc' = "read"
  /\ UNCHANGED <<cli, model_loaded, out, scores, is_match, selection_summary,
                 i, windows, distribution>>
  /\ UNCHANGED stream_vars
  /\ UNCHANGED scoring_vars
  /\ UNCHANGED read_error

\* stdin's lines() yields an Err while the input is collected: the ? returns
\* it from main with nothing read kept.
ReadFail ==
  /\ pc = "loaded"
  /\ ~cli.stream
  /\ read_error' = TRUE
  /\ pc' = "error"
  /\ UNCHANGED <<cli, model_loaded, out>>
  /\ UNCHANGED batch_vars
  /\ UNCHANGED stream_vars
  /\ UNCHANGED scoring_vars

\* encode_with_args, normalize and cosine_similarity of every line, as one
\* step: one score per line, at the line's index, the model's score of that
\* line.
ComputeScores ==
  /\ pc = "read"
  /\ scores' \in [0..(Len(input_lines) - 1) -> ScoreVals]
  /\ similarity' = scores'
  /\ pc' = "scored"
  /\ UNCHANGED <<cli, model_loaded, out, input_lines, is_match,
                 selection_summary, i, windows, distribution>>
  /\ UNCHANGED stream_vars
  /\ UNCHANGED <<pending, read_error>>

\* The mutated comparator: ascending by score.
RankedAscending(s, a, b) == s[a] < s[b]

\* The comparator of indices.sort_by, scores[j].partial_cmp(&scores[i]): a
\* sorts strictly before b when its score is the greater.
RankedBefore(s, a, b) == s[a] > s[b]

\* One insertion of a stable sort: x, which came later in the input, goes
\* before the first element it sorts strictly before.
RECURSIVE InsertIndex(_, _, _)
InsertIndex(s, x, sorted) ==
  IF sorted = <<>> THEN <<x>>
  ELSE IF RankedBefore(s, x, Head(sorted)) THEN <<x>> \o sorted
  ELSE <<Head(sorted)>> \o InsertIndex(s, x, Tail(sorted))

\* indices = (0..scores.len()).collect(), sorted by score, descending.
RECURSIVE SortedIndices(_, _)
SortedIndices(s, n) ==
  IF n = 0 THEN <<>> ELSE InsertIndex(s, n - 1, SortedIndices(s, n - 1))

\* indices.iter().take(n)
Take(seq, n) == SubSeq(seq, 1, Min2(n, Len(seq)))

\* .fold(1.0f32, |acc, s| acc.min(s)) over the scores of the taken indices.
RECURSIVE FoldMin(_, _, _)
FoldMin(acc, s, taken) ==
  IF taken = <<>> THEN acc
  ELSE FoldMin(Min2(acc, s[Head(taken)]), s, Tail(taken))

\* The top-N branch: the mask and the summary.
SelectTop(s, top_n) ==
  LET n == Min2(top_n, VecLen(s))
      indices == SortedIndices(s, VecLen(s))
      taken == Take(indices, n)
  IN [mask |-> [k \in DOMAIN s |-> \E t \in 1..Len(taken) : taken[t] = k],
      summary |-> [kind |-> "top", n |-> n,
                   min_selected |-> FoldMin(One, s, taken)]]

\* The mutated test: strictly above the threshold.
ExceedsThreshold(score, threshold) == score > threshold

\* score >= threshold
MeetsThreshold(score, threshold) == score >= threshold

\* The threshold loop from idx on, with the mask and the count so far.
RECURSIVE ThresholdLoop(_, _, _, _, _)
ThresholdLoop(s, threshold, idx, mask, count) ==
  IF idx >= VecLen(s) THEN [mask |-> mask, count |-> count]
  ELSE IF MeetsThreshold(s[idx], threshold)
       THEN ThresholdLoop(s, threshold, idx + 1,
                          [mask EXCEPT ![idx] = TRUE], count + 1)
       ELSE ThresholdLoop(s, threshold, idx + 1, mask, count)

\* The threshold branch: the mask and the summary.
SelectThreshold(s, threshold) ==
  LET r == ThresholdLoop(s, threshold, 0, [k \in DOMAIN s |-> FALSE], 0)
  IN [mask |-> r.mask,
      summary |-> IF r.count = 0
                  THEN [kind |-> "none", threshold |-> threshold]
                  ELSE [kind |-> "matches", count |-> r.count,
                        threshold |-> threshold]]

\* Selection by top-N or by threshold; the scan index i starts at 0.
Select ==
  /\ pc = "scored"
  /\ LET r == IF cli.top # <<>> THEN SelectTop(scores, cli.top[1])
              ELSE SelectThreshold(scores, cli.threshold)
     IN /\ is_match' = r.mask
        /\ selection_summary' = <<r.summary>>
  /\ i' = 0
  /\ pc' = "selected"
  /\ UNCHANGED <<cli, model_loaded, out, input_lines, scores, windows,
                 distribution>>
  /\ UNCHANGED stream_vars
  /\ UNCHANGED scoring_vars
  /\ UNCHANGED read_error

\* let start = i.saturating_sub(cli.before)
WindowStart(at, before) == saturating_sub(at, before)

\* The mutated reach: one line more.
WindowReachWide(at, after, len) == Min2(at + 2 + after, len)

\* (i + 1 + cli.after).min(input_lines.len()), the sum as a release build
\* computes it.
WindowReach(at, after, len) ==
  Min2(wrapping_add(wrapping_add(at, 1), after), len)

\* i + 1 + cli.after is beyond the word: a build with overflow checks
\* panics there, a build without them wraps.
ReachOverflows(at, after) == at + 1 + after > UsizeMax

\* The inner loop from j on: a match at j whose start is within end extends
\* the window; anything else at j ends the loop.
RECURSIVE ExtendWindow(_, _, _, _, _, _)
ExtendWindow(mask, len, before, after, j, end) ==
  IF j < len /\ mask[j] /\ WindowStart(j, before) <= end
  THEN ExtendWindow(mask, len, before, after, j + 1,
                    WindowReach(j, after, len))
  ELSE end

\* The end of the window opened at the match at index at.
WindowEnd(mask, len, before, after, at) ==
  ExtendWindow(mask, len, before, after, at + 1, WindowReach(at, after, len))

\* Some sum of the inner loop from j on is beyond the word.
RECURSIVE ExtendOverflows(_, _, _, _, _, _)
ExtendOverflows(mask, len, before, after, j, end) ==
  IF j < len /\ mask[j] /\ WindowStart(j, before) <= end
  THEN \/ ReachOverflows(j, after)
       \/ ExtendOverflows(mask, len, before, after, j + 1,
                          WindowReach(j, after, len))
  ELSE FALSE

\* Some sum in the computation of the window opened at index at is beyond
\* the word.
WindowOverflows(mask, len, before, after, at) ==
  \/ ReachOverflows(at, after)
  \/ ExtendOverflows(mask, len, before, after, at + 1,
                     WindowReach(at, after, len))

\* The mutated scan test: a line is stepped over when it matches.
SteppedOverIfMatch(mask, at) == mask[at]

\* if !is_match[i] { i += 1; continue; }
SteppedOver(mask, at) == ~mask[at]

\* for k in start..end: the printed lines of one block.
PrintBlock(start, end) ==
  [k \in 1..(end - start) |->
     PrintLine(start + k - 1, is_match[start + k - 1], scores[start + k - 1],
               cli.hide_scores)]

\* One iteration of the outer while loop: a line that does not match is
\* stepped over; a match opens a window, which is printed, followed by "--"
\* when it ends before the end of the input, and the scan goes on at its end.
\* Where a sum of the window computation is beyond the word, the build
\* decides: a panic before anything of the block is printed, or the wrapped
\* sum.  windows keeps, for each block, the index it was opened at, its
\* start and end, and whether "--" followed it.
WindowStep ==
  /\ pc = "selected"
  /\ i < Len(input_lines)
  /\ IF SteppedOver(is_match, i)
     THEN /\ i' = i + 1
          /\ UNCHANGED <<pc, out, windows>>
     ELSE LET len == Len(input_lines)
              start == WindowStart(i, cli.before)
              end == WindowEnd(is_match, len, cli.before, cli.after, i)
          IN \/ /\ WindowOverflows(is_match, len, cli.before, cli.after, i)
                /\ pc' = "panic"
                /\ UNCHANGED <<i, out, windows>>
             \/ /\ out' = out \o PrintBlock(start, end)
                              \o (IF end < len THEN <<Sep>> ELSE <<>>)
                /\ windows' = Append(windows,
                                     [at |-> i, start |-> start, end |-> end,
                                      sep |-> end < len])
                /\ i' = end
                /\ UNCHANGED pc
  /\ UNCHANGED <<cli, model_loaded, input_lines, scores, is_match,
                 selection_summary, distribution>>
  /\ UNCHANGED stream_vars
  /\ UNCHANGED scoring_vars
  /\ UNCHANGED read_error

\* One insertion of the ascending stable sort of all_scores.
RECURSIVE InsertScore(_, _)
InsertScore(x, sorted) ==
  IF sorted = <<>> THEN <<x>>
  ELSE IF x < Head(sorted) THEN <<x>> \o sorted
  ELSE <<Head(sorted)>> \o InsertScore(x, Tail(sorted))

\* all_scores = scores.clone(), sorted ascending: a sequence, whose element
\* at the source's index idx is all_scores[idx + 1].
RECURSIVE SortedScores(_, _)
SortedScores(s, n) ==
  IF n = 0 THEN <<>> ELSE InsertScore(s[n - 1], SortedScores(s, n - 1))

\* The percentiles the summary asks for, p = num/den as <<num, den>>:
\* 0.50, 0.90, 0.95, 0.99, 0.999 (main.rs:223-227) and 0.9999 (main.rs:240).
P50 == <<50, 100>>
P90 == <<90, 100>>
P95 == <<95, 100>>
P99 == <<99, 100>>
P999 == <<999, 1000>>
P9999 == <<9999, 10000>>

\* f32::round of a non-negative num/den: halves go away from zero.
RoundHalfUp(num, den) == (2 * num + den) \div (2 * den)

\* The mutated index: n in place of n - 1.
QuantileIndexOverLen(n, p) == RoundHalfUp(n * p[1], p[2])

\* idx = ((n as f32 - 1.0) * p).round() as usize
QuantileIndex(n, p) == RoundHalfUp((n - 1) * p[1], p[2])

\* The index all_scores[idx] reads is within the vector.
QuantileInRange(all_scores, p) ==
  all_scores = <<>> \/ QuantileIndex(Len(all_scores), p) < Len(all_scores)

\* The closure q: 0.0 for an empty population, else all_scores[idx].
q(all_scores, p) ==
  IF all_scores = <<>> THEN 0
  ELSE all_scores[QuantileIndex(Len(all_scores), p) + 1]

\* The end of a batch run, once the scan is over: the statistics, the final
\* "--" and the report.  An index out of range panics where q is called:
\* before the "--" for the five percentiles of the first report line, after
\* it for 0.9999.
Summary ==
  /\ pc = "selected"
  /\ i >= Len(input_lines)
  /\ LET all_scores == SortedScores(scores, VecLen(scores))
         first == {P50, P90, P95, P99, P999}
     IN IF \E p \in first : ~QuantileInRange(all_scores, p)
        THEN /\ pc' = "panic"
             /\ UNCHANGED <<out, distribution>>
        ELSE IF ~QuantileInRange(all_scores, P9999)
        THEN /\ pc' = "panic"
             /\ out' = Append(out, Sep)
             /\ UNCHANGED distribution
        ELSE /\ pc' = "done"
             /\ out' = Append(out, Sep)
             /\ distribution' =
                  <<[min_all |-> IF all_scores = <<>> THEN 0
                                 ELSE all_scores[1],
                     max_all |-> IF all_scores = <<>> THEN 0
                                 ELSE all_scores[Len(all_scores)],
                     p50_all |-> q(all_scores, P50),
                     p90_all |-> q(all_scores, P90),
                     p95_all |-> q(all_scores, P95),
                     p99_all |-> q(all_scores, P99),
                     p999_all |-> q(all_scores, P999),
                     p9999 |-> q(all_scores, P9999)]>>
  /\ UNCHANGED <<cli, model_loaded, input_lines, scores, is_match,
                 selection_summary, i, windows>>
  /\ UNCHANGED stream_vars
  /\ UNCHANGED scoring_vars
  /\ UNCHANGED read_error

\* The call of run_stream: its locals as they are before the first line.
EnterStream ==
  /\ pc = "loaded"
  /\ cli.stream
  /\ before_buf' = <<>>
  /\ after_remaining' = 0
  /\ printed_any' = FALSE
  /\ printed_prev_line' = FALSE
  /\ pc' = "stream"
  /\ UNCHANGED <<cli, model_loaded, out>>
  /\ UNCHANGED batch_vars
  /\ UNCHANGED scoring_vars
  /\ UNCHANGED read_error

\* The mutated buffer: a full buffer loses its newest entry.
MaintainBeforeBufDropNewest(buf, before, line) ==
  IF before > 0
  THEN Append(IF Len(buf) = before THEN SubSeq(buf, 1, Len(buf) - 1) ELSE buf,
              line)
  ELSE buf

\* The before-buffer after the line: the oldest entry leaves a full buffer.
MaintainBeforeBuf(buf, before, line) ==
  IF before > 0
  THEN Append(IF Len(buf) = before THEN Tail(buf) ELSE buf, line)
  ELSE buf

\* The mutated separator test: whatever was printed before.
SeparatorUnlessPrevPrinted(any, prev) == ~prev

\* printed_any && !printed_prev_line: a match opens a block after an earlier
\* one.
NeedsSeparator(any, prev) == any /\ ~prev

\* The mutated after-context test: a line is owed with none remaining.
TrailingOwedAlways(remaining) == remaining >= 0

\* after_remaining > 0
TrailingOwed(remaining) == remaining > 0

\* One iteration of the for loop of run_stream: the next line is read and
\* scored, then printed or not, then pushed on the before-buffer.  The line
\* read is line Len(input_lines); scores and is_match keep what each line
\* was given.
StreamLine ==
  /\ pc = "stream"
  /\ Len(input_lines) < MaxLen
  /\ \E score \in ScoreVals :
       LET line == Len(input_lines)
           matched == MeetsThreshold(score, cli.threshold)
       IN /\ input_lines' = Append(input_lines, line)
          /\ scores' = Push(scores, score)
          /\ is_match' = Push(is_match, matched)
          /\ IF matched
             THEN /\ out' = out
                       \o (IF NeedsSeparator(printed_any, printed_prev_line)
                           THEN <<Sep>> ELSE <<>>)
                       \o (IF ~printed_prev_line /\ cli.before > 0
                           THEN [k \in 1..Len(before_buf) |->
                                   PrintLine(before_buf[k], FALSE, 0, TRUE)]
                           ELSE <<>>)
                       \o <<PrintLine(line, TRUE, score, cli.hide_scores)>>
                  /\ printed_any' = TRUE
                  /\ printed_prev_line' = TRUE
                  /\ after_remaining' = cli.after
             ELSE IF TrailingOwed(after_remaining)
             THEN /\ out' = Append(out, PrintLine(line, FALSE, 0, TRUE))
                  /\ printed_any' = TRUE
                  /\ printed_prev_line' = TRUE
                  /\ after_remaining' = after_remaining - 1
             ELSE /\ printed_prev_line' = FALSE
                  /\ UNCHANGED <<out, printed_any, after_remaining>>
          /\ before_buf' = MaintainBeforeBuf(before_buf, cli.before, line)
  /\ UNCHANGED <<pc, cli, model_loaded, selection_summary, i, windows,
                 distribution>>
  /\ UNCHANGED scoring_vars
  /\ UNCHANGED read_error

\* The mutated read: a line that cannot be read is passed over and the loop
\* goes on.
StreamReadSkip ==
  /\ pc = "stream"
  /\ read_error' = TRUE
  /\ UNCHANGED <<pc, cli, model_loaded, out>>
  /\ UNCHANGED batch_vars
  /\ UNCHANGED stream_vars
  /\ UNCHANGED scoring_vars

\* The next line of the stream is an Err: the ? returns it from run_stream
\* and from main.
StreamReadFail ==
  /\ pc = "stream"
  /\ read_error' = TRUE
  /\ pc' = "error"
  /\ UNCHANGED <<cli, model_loaded, out>>
  /\ UNCHANGED batch_vars
  /\ UNCHANGED stream_vars
  /\ UNCHANGED scoring_vars

\* The end of the input in run_stream: Ok(()), and main returns.
StreamEnd ==
  /\ pc = "stream"
  /\ pc' = "done"
  /\ UNCHANGED <<cli, model_loaded, out>>
  /\ UNCHANGED batch_vars
  /\ UNCHANGED stream_vars
  /\ UNCHANGED scoring_vars
  /\ UNCHANGED read_error

Next ==
  \/ Parse
  \/ LoadModel
  \/ ReadAll
  \/ ReadFail
  \/ ComputeScores
  \/ Select
  \/ WindowStep
  \/ Summary
  \/ EnterStream
  \/ StreamLine
  \/ StreamReadFail
  \/ StreamEnd

Spec == Init /\ [][Next]_vars

\* The scoring of a batch run, line by line.  The parallel maps of main
\* (into_par_iter().map().collect() and par_iter().map().collect()) hand
\* each line to some worker; the workers finish in any order and collect()
\* returns once all have.

\* The mutated collect: results are kept in the order the workers finish.
ResultSlotByCompletion(v, k) == VecLen(v)

\* collect() of an indexed parallel iterator: the result for item k is
\* element k of the vector.
ResultSlot(v, k) == k

\* v with x at index slot.
Store(v, slot, x) ==
  [j \in DOMAIN v \cup {slot} |-> IF j = slot THEN x ELSE v[j]]

\* The maps are started: every line is to be scored, and the model's score
\* for each is what it is.
ForkScores ==
  /\ pc = "read"
  /\ similarity' \in [0..(Len(input_lines) - 1) -> ScoreVals]
  /\ pending' = 0..(Len(input_lines) - 1)
  /\ pc' = "scoring"
  /\ UNCHANGED <<cli, model_loaded, out, read_error>>
  /\ UNCHANGED batch_vars
  /\ UNCHANGED stream_vars

\* Some worker finishes the line it was given.
ScoreWorker ==
  /\ pc = "scoring"
  /\ \E k \in pending :
       /\ scores' = Store(scores, ResultSlot(scores, k), similarity[k])
       /\ pending' = pending \ {k}
  /\ UNCHANGED <<pc, cli, model_loaded, out, read_error, similarity,
                 input_lines, is_match, selection_summary, i, windows,
                 distribution>>
  /\ UNCHANGED stream_vars

\* collect() returns: no line is left to score.
JoinScores ==
  /\ pc = "scoring"
  /\ pending = {}
  /\ pc' = "scored"
  /\ UNCHANGED <<cli, model_loaded, out, read_error>>
  /\ UNCHANGED batch_vars
  /\ UNCHANGED stream_vars
  /\ UNCHANGED scoring_vars

\* Batch runs without context, for the scoring line by line.
CliBarrier ==
  {c \in Cli : ~c.stream /\ ~c.hide_scores /\ c.before = 0 /\ c.after = 0}

InitBarrier ==
  /\ pc = "start"
  /\ cli \in CliBarrier
  /\ model_loaded = FALSE
  /\ input_lines = <<>>
  /\ scores = EmptyVec
  /\ is_match = EmptyVec
  /\ selection_summary = <<>>
  /\ i = 0
  /\ windows = <<>>
  /\ out = <<>>
  /\ distribution = <<>>
  /\ before_buf = <<>>
  /\ after_remaining = 0
  /\ printed_any = FALSE
  /\ printed_prev_line = FALSE
  /\ similarity = EmptyVec
  /\ pending = {}
  /\ read_error = FALSE

NextBarrier ==
  \/ Parse
  \/ LoadModel
  \/ ReadAll
  \/ ReadFail
  \/ ForkScores
  \/ ScoreWorker
  \/ JoinScores
  \/ Select
  \/ WindowStep
  \/ Summary

SpecBarrier == InitBarrier /\ [][NextBarrier]_vars

\* Batch runs whose after and before range over the whole machine word.
CliWord ==
  [threshold : ScoreVals, after : 0..UsizeMax,
   before : (0..MaxCtx) \cup {UsizeMax}, hide_scores : {FALSE},
   top : {<<>>}, stream : {FALSE}]

InitWord ==
  /\ pc = "start"
  /\ cli \in CliWord
  /\ model_loaded = FALSE
  /\ input_lines = <<>>
  /\ scores = EmptyVec
  /\ is_match = EmptyVec
  /\ selection_summary = <<>>
  /\ i = 0
  /\ windows = <<>>
  /\ out = <<>>
  /\ distribution = <<>>
  /\ before_buf = <<>>
  /\ after_remaining = 0
  /\ printed_any = FALSE
  /\ printed_prev_line = FALSE
  /\ similarity = EmptyVec
  /\ pending = {}
  /\ read_error = FALSE

\* The outer loop, followed for no more than two blocks beyond the number
\* of lines: a scan that makes progress never opens that many.
WindowStepWord ==
  /\ Len(windows) < MaxLen + 2
  /\ WindowStep

NextWord ==
  \/ Parse
  \/ LoadModel
  \/ ReadAll
  \/ ComputeScores
  \/ Select
  \/ WindowStepWord
  \/ Summary

SpecWord == InitWord /\ [][NextWord]_vars

----------------------------------------------------------------------------
\* What the output and the masks say, for the properties below.

\* A batch run that has printed its summary.
BatchDone == pc = "done" /\ ~cli.stream

\* A streaming run that has reached the end of its input.
StreamDone == pc = "done" /\ cli.stream

\* The positions of the output that hold a line, and the line indices printed.
LinePositions(o) == {k \in 1..Len(o) : o[k][1] = "line"}

Rendered(o) == {o[k][2] : k \in LinePositions(o)}

\* The indices within before/after reach of some match.
Reach(mask, len, before, after) ==
  {x \in 0..(len - 1) :
     \E m \in 0..(len - 1) : mask[m] /\ m - before <= x /\ x < m + 1 + after}

\* The indices the batch loop renders from index at on, by the loop's own
\* window computation.
RECURSIVE BatchRendered(_, _, _, _, _)
BatchRendered(mask, len, before, after, at) ==
  IF at >= len THEN {}
  ELSE IF ~mask[at] THEN BatchRendered(mask, len, before, after, at + 1)
  ELSE LET end == WindowEnd(mask, len, before, after, at)
       IN (WindowStart(at, before)..(end - 1))
            \cup BatchRendered(mask, len, before, after, end)

\* C1: at the end of a batch run the set of rendered line indices is exactly
\* the set of indices within before/after reach of some match.
C1_RenderedIsReach ==
  BatchDone =>
    Rendered(out) = Reach(is_match, Len(input_lines), cli.before, cli.after)

\* C2: the windows of a batch run are emitted in increasing order and are
\* pairwise disjoint, and no line index is printed more than once.
C2_WindowsDisjoint ==
  ~cli.stream =>
    /\ \A k \in 1..(Len(windows) - 1) : windows[k + 1].start >= windows[k].end
    /\ \A a, b \in LinePositions(out) : out[a][2] = out[b][2] => a = b

\* C3: with before = 0, a streaming run renders the same set of line indices
\* as the batch loop does on the same scores and threshold.
C3_StreamEqualsBatch ==
  (StreamDone /\ cli.before = 0) =>
    Rendered(out) =
      BatchRendered(SelectThreshold(scores, cli.threshold).mask,
                    Len(input_lines), 0, cli.after, 0)

\* C4: between two windows emitted one after the other, "--" is printed if
\* and only if the second does not start where the first ends.
C4_SeparatorIffNotAdjacent ==
  ~cli.stream =>
    \A k \in 1..(Len(windows) - 1) :
      windows[k].sep <=> windows[k + 1].start # windows[k].end

\* C5: no "--" is printed after the last window of a batch run, so the output
\* never holds two "--" in a row.
C5_NoSeparatorAfterLast ==
  BatchDone =>
    /\ windows # <<>> => ~windows[Len(windows)].sep
    /\ \A k \in 1..(Len(out) - 1) : ~(out[k] = Sep /\ out[k + 1] = Sep)

\* A batch run past its selection, in top-N mode and in threshold mode.
Selected == ~cli.stream /\ pc \in {"selected", "done", "panic"}

TopSelected == Selected /\ cli.top # <<>>

ThresholdSelected == Selected /\ cli.top = <<>>

\* The indices the mask selects.
Matches(mask) == {k \in DOMAIN mask : mask[k]}

\* How many scores a threshold selects.
CountAtLeast(s, threshold) ==
  Cardinality({k \in DOMAIN s : s[k] >= threshold})

\* C6: top-N selects exactly min(N, L) lines, every selected score is at
\* least every unselected score, N >= L selects every line and N = 0 none.
C6_TopNSelection ==
  TopSelected =>
    LET N == cli.top[1]
        L == Len(input_lines)
    IN /\ Cardinality(Matches(is_match)) = Min2(N, L)
       /\ \A a, b \in DOMAIN is_match :
            (is_match[a] /\ ~is_match[b]) => scores[a] >= scores[b]
       /\ N >= L => Matches(is_match) = DOMAIN is_match
       /\ N = 0 => Matches(is_match) = {}

\* C6 witness: top-N has chosen some but not all of the lines, and a line it
\* left out scores strictly less than one it chose, which stands later.
C6_Witness ==
  /\ TopSelected
  /\ \E a, b \in DOMAIN is_match :
       a > b /\ is_match[a] /\ ~is_match[b] /\ scores[a] > scores[b]

\* C7: the "min selected score" of the top-N summary is the least score
\* among the selected lines, whenever at least one line is selected.
C7_MinSelected ==
  (TopSelected /\ Matches(is_match) # {}) =>
    /\ \E k \in Matches(is_match) :
         selection_summary[1].min_selected = scores[k]
    /\ \A k \in Matches(is_match) :
         selection_summary[1].min_selected <= scores[k]

\* C8: in threshold mode a line is selected if and only if its score is at
\* least the threshold, in a batch run and in a streaming run; the reported
\* count is the number of selected lines, the "no matches" summary is given
\* exactly for a count of 0, and no higher threshold selects more lines.
C8_ThresholdSelection ==
  /\ cli.top = <<>> =>
       \A k \in DOMAIN is_match : is_match[k] <=> scores[k] >= cli.threshold
  /\ ThresholdSelected =>
       LET sum == selection_summary[1]
           count == Cardinality(Matches(is_match))
       IN /\ DOMAIN is_match = DOMAIN scores
          /\ sum.kind = "none" <=> count = 0
          /\ sum.kind = "matches" => sum.count = count
          /\ sum.threshold = cli.threshold
          /\ \A t \in ScoreVals :
               t >= cli.threshold => CountAtLeast(scores, t) <= count

\* C8 witness: a threshold run in which a score equal to the threshold is
\* selected, a lower one is not, and a higher threshold selects fewer lines.
C8_Witness ==
  /\ ThresholdSelected
  /\ \E a, b \in DOMAIN is_match :
       /\ scores[a] = cli.threshold /\ is_match[a]
       /\ scores[b] < cli.threshold /\ ~is_match[b]
  /\ \E t \in ScoreVals :
       /\ t > cli.threshold
       /\ CountAtLeast(scores, t) < Cardinality(Matches(is_match))

\* C9: a run given both --top and --stream never gets past the parse of its
\* command line: no model is loaded, no line is read, scored or printed.
C9_TopStreamRejected ==
  (cli.top # <<>> /\ cli.stream) =>
    /\ pc \in {"start", "rejected"}
    /\ ~model_loaded
    /\ input_lines = <<>>
    /\ DOMAIN scores = {}
    /\ DOMAIN is_match = {}
    /\ out = <<>>

\* C9 witness: the parse has rejected a command line with both options.
C9_Witness == pc = "rejected" /\ cli.top # <<>> /\ cli.stream

P0 == <<0, 1>>
P100 == <<1, 1>>

Streaming == cli.stream /\ pc \in {"stream", "done", "error"}

\* C11: in a streaming run no input line is printed more than once: the
\* before-context printed ahead of a match holds no line already printed.
C11_StreamPrintsOnce ==
  cli.stream =>
    \A a, b \in LinePositions(out) : out[a][2] = out[b][2] => a = b

\* C12: with before = 0 and after = 0 a batch run prints exactly the matched
\* lines, each once and in increasing index order, and no other line.
C12_ZeroContext ==
  (BatchDone /\ cli.before = 0 /\ cli.after = 0) =>
    /\ Rendered(out) = Matches(is_match)
    /\ \A a, b \in LinePositions(out) : a < b => out[a][2] < out[b][2]

\* C12 witness: a finished run without context whose matches are not all
\* next to each other and leave lines out at both ends of a gap.
C12_Witness ==
  /\ BatchDone /\ cli.before = 0 /\ cli.after = 0
  /\ \E a, b, c \in DOMAIN is_match :
       a < b /\ b < c /\ is_match[a] /\ ~is_match[b] /\ is_match[c]

\* C13: with no line selected, a batch run emits no window and prints no
\* line; its whole output is the final "--" of the summary.
C13_EmptyMask ==
  (Selected /\ Matches(is_match) = {}) =>
    /\ windows = <<>>
    /\ pc = "selected" => out = <<>>
    /\ pc = "done" => out = <<Sep>>

\* C13 witness: a finished run over the longest input with context asked
\* for on both sides and no line selected.
C13_Witness ==
  /\ BatchDone /\ Matches(is_match) = {}
  /\ Len(input_lines) = MaxLen /\ cli.before > 0 /\ cli.after > 0

\* The most recent match before line k is within after lines of it.
InAfterReach(k) ==
  \E m \in 0..(k - 1) :
    /\ is_match[m]
    /\ \A j \in (m + 1)..(k - 1) : ~is_match[j]
    /\ k - m <= cli.after

\* C14: in a streaming step a matching line is printed at that step and
\* sets after_remaining to after; a line that does not match is printed at
\* that step if and only if the most recent match before it is at most
\* after lines back; after_remaining stays within 0..after.
C14_AfterContext ==
  [][(pc = "stream" /\ Len(input_lines') = Len(input_lines) + 1) =>
       LET k == Len(input_lines)
       IN /\ after_remaining' \in 0..cli.after
          /\ is_match'[k] =>
               /\ Len(out') > Len(out)
               /\ out'[Len(out')] =
                    <<"line", k,
                      IF cli.hide_scores THEN <<>> ELSE <<scores'[k]>>>>
               /\ after_remaining' = cli.after
          /\ (~is_match'[k] /\ InAfterReach(k)) =>
               out' = Append(out, <<"line", k, <<>>>>)
          /\ (~is_match'[k] /\ ~InAfterReach(k)) => out' = out]_vars

\* C14 witness: after a match, a line within after of it was printed and a
\* later line beyond it was not.
C14_Witness ==
  /\ Streaming
  /\ \E m, a, b \in DOMAIN is_match :
       /\ m < a /\ a < b
       /\ is_match[m] /\ ~is_match[a] /\ ~is_match[b]
       /\ \A j \in (m + 1)..b : ~is_match[j]
       /\ a \in Rendered(out) /\ b \notin Rendered(out)

\* C15: after k lines the before-buffer holds the last min(before, k) lines
\* in input order, printed or not: never more than before, none with
\* before = 0.
C15_BeforeBuffer ==
  cli.stream =>
    LET k == Len(input_lines)
        m == Min2(cli.before, k)
    IN /\ Len(before_buf) = m
       /\ \A j \in 1..m : before_buf[j] = k - m + j - 1

\* C15 witness: the buffer is full, has lost its oldest line and holds a
\* line that was printed.
C15_Witness ==
  /\ Streaming
  /\ cli.before > 0
  /\ Len(input_lines) > cli.before
  /\ Len(before_buf) = cli.before
  /\ \E j \in 1..Len(before_buf) : before_buf[j] \in Rendered(out)

SepCount(o) == Cardinality({k \in 1..Len(o) : o[k] = Sep})

\* C16: in a streaming run "--" is printed only at a step whose line
\* matches, when something was printed before and the line before was not
\* printed at its own step; "--" is never the first or the last output and
\* never follows another "--".
C16_StreamSeparators ==
  /\ [](cli.stream =>
          /\ out # <<>> => (out[1] # Sep /\ out[Len(out)] # Sep)
          /\ \A k \in 1..(Len(out) - 1) : ~(out[k] = Sep /\ out[k + 1] = Sep))
  /\ [][(cli.stream /\ SepCount(out') > SepCount(out)) =>
          LET k == Len(input_lines)
          IN /\ pc = "stream"
             /\ Len(input_lines') = k + 1
             /\ is_match'[k]
             /\ out # <<>>
             /\ out[Len(out)][2] # k - 1
             /\ ~(k > 0 /\ is_match[k - 1])
             /\ out'[Len(out) + 1] = Sep
             /\ SepCount(out') = SepCount(out) + 1]_vars

\* C16 witness: a "--" was printed, and a match was printed right after the
\* match before it.
C16_Witness ==
  /\ Streaming
  /\ SepCount(out) > 0
  /\ \E p \in 1..(Len(out) - 1) :
       /\ out[p][1] = "line" /\ out[p + 1][1] = "line"
       /\ out[p + 1][2] = out[p][2] + 1
       /\ is_match[out[p][2]] /\ is_match[out[p + 1][2]]

\* C17: every window opened at an unvisited match i has
\* start <= i < end <= len, the scan index grows in every iteration of the
\* outer loop, and no iteration panics, for every before and after of the
\* machine word.
C17_ScanProgress ==
  [][(pc = "selected" /\ ~cli.stream) =>
       /\ pc' # "panic"
       /\ pc' = "selected" =>
            /\ i' > i
            /\ i' <= Len(input_lines)
            /\ windows' # windows =>
                 LET w == windows'[Len(windows')]
                 IN w.start <= i /\ i < w.end /\ w.end <= Len(input_lines)]_vars

\* C18: in a batch run every selected line is printed: by the window opened
\* at it, and by the end of the run; a printed line carries its score if and
\* only if it is selected and scores are not hidden.
C18_SelectedShown ==
  ~cli.stream =>
    /\ \A k \in 1..Len(windows) : windows[k].at \in Rendered(out)
    /\ pc \in {"done", "panic"} => Matches(is_match) \subseteq Rendered(out)
    /\ \A p \in LinePositions(out) :
         out[p][3] = IF is_match[out[p][2]] /\ ~cli.hide_scores
                     THEN <<scores[out[p][2]]>> ELSE <<>>

\* The indices of the lines read.
LineIndices == 0..(Len(input_lines) - 1)

\* C19: in a batch run nothing is printed and nothing is selected before
\* every line is read and scored; whatever the order in which the workers
\* finish, the score at index k is the model's score of line k; a read
\* failure ends the run with nothing printed.
C19_BatchBarrier ==
  ~cli.stream =>
    /\ (out # <<>> \/ selection_summary # <<>> \/ Matches(is_match) # {}) =>
         /\ pc \in {"selected", "done", "panic"}
         /\ pending = {}
         /\ DOMAIN scores = LineIndices
    /\ pc \in {"scored", "selected", "done", "panic"} =>
         /\ DOMAIN scores = LineIndices
         /\ \A k \in LineIndices : scores[k] = similarity[k]
    /\ read_error =>
         /\ pc = "error"
         /\ out = <<>>
         /\ windows = <<>>
         /\ selection_summary = <<>>

\* C19 witness: the scoring is under way, a later line is scored and an
\* earlier one, whose score differs, is not.
C19_Witness ==
  /\ pc = "scoring"
  /\ \E a \in pending, b \in DOMAIN scores :
       a < b /\ similarity[a] # similarity[b]

\* C20: in a streaming run every line read is scored and pushed on the
\* before-buffer before the next is read; a read failure ends the run in
\* error at that step, leaving the lines read, their scores and the output as
\* they were, and nothing happens after it.
C20_StreamAbort ==
  /\ [](cli.stream =>
          /\ read_error => pc = "error"
          /\ DOMAIN scores = LineIndices
          /\ DOMAIN is_match = LineIndices
          /\ (cli.before > 0 /\ input_lines # <<>>) =>
               before_buf[Len(before_buf)] = Len(input_lines) - 1)
  /\ [][(cli.stream /\ read_error') =>
          /\ pc' = "error"
          /\ ~read_error
          /\ pc = "stream"
          /\ out' = out
          /\ input_lines' = input_lines
          /\ scores' = scores
          /\ is_match' = is_match]_vars

\* C20 witness: a streaming run that has printed lines and stopped in error
\* before the bound on the input was reached.
C20_Witness ==
  /\ cli.stream
  /\ pc = "error"
  /\ read_error
  /\ out # <<>>
  /\ Len(input_lines) \in 1..(MaxLen - 1)

=============================================================================
